---- MODULE Spec2Model ----
(***************************************************************************)
(* A state-machine model of the FIX session clients of senfix-webapp:      *)
(*   - FixClient (src/fix_client.py): the socket client that keeps its own *)
(*     sequence counters, its resend store and session_state.json;         *)
(*   - QuickFixClient (src/quickfix_client.py): the QuickFIX application   *)
(*     object, its callbacks and its send operations, with the part of the *)
(*     web layer (src/sendfix_web_multi.py) that writes its session_id.    *)
(*   - MultiFixClient (src/multi_fix_client.py) with the web layer and the *)
(*     CLI (src/sendfix_cli.py) that drive it.                             *)
(* Spec runs the FixClient (SpecThreads its threads, SpecIdle the session  *)
(* over time, SpecBytes its encoding and parsing), SpecQF the              *)
(* QuickFixClient (SpecConfig its configuration file), SpecMulti,          *)
(* SpecSessions, SpecCli and SpecWeb the MultiFixClient and its callers.   *)
(***************************************************************************)
EXTENDS Integers, Sequences, FiniteSets, TLC

\* ------------------------------------------------------------------ bounds

\* Sequence numbers stay within 0..MaxSeq (sends stop at MaxSeq).
MaxSeq == 2
\* send_orders_from_file reads at most MaxOrders order lines.
MaxOrders == 2
\* At most MaxSent messages are handed to fix.Session.sendToTarget.
MaxSent == 2
\* In SpecThreads a thread starts a send only while seq is below MaxThreadSeq.
MaxThreadSeq == 3
\* the most keys a client's quickfix_overrides sets
MaxOverrides == 2

\* ------------------------------------------------------------- FixClient

VARIABLES
    seq,            \* self.seq: the last MsgSeqNum used (next_out = seq + 1)
    expected_seq,   \* self.expected_seq: next_in
    sent_messages,  \* self.sent_messages: set of <<seq, MsgType>> (a dict by seq)
    session_file,   \* session_state.json: NoFile or [outgoing_seq, incoming_seq]
    sock,           \* self.sock: "None", "open", "peerclosed", "closed" (a socket
                    \* object that is closed or was never connected)
    running,        \* self.running
    receiver,       \* the receiver thread: "none", "alive", "dead"
    gui_callback,   \* whether a gui_callback attribute is set
    last            \* the operation that ran last, with its input and outcome

VARIABLES
    session_id,         \* QuickFixClient.session_id: "None" or "SID"
    logged_on,          \* QuickFixClient.logged_on
    qrunning,           \* QuickFixClient.running
    connection_failed,  \* QuickFixClient.connection_failed
    connection_type,    \* QuickFixClient.connection_type: "initiator", "acceptor"
    endpoint,           \* whether self.initiator (self.acceptor) exists
    engine,             \* the QuickFIX session: "absent", "created", "logon"
    to_target,          \* number of messages handed to fix.Session.sendToTarget
    in_sessions,        \* whether MultiFixClient.sessions holds the client
    session_states,     \* MultiFixClient.session_states[name], name the key the
                        \* client is held under: "none" (no entry), "connected",
                        \* "disconnected"
    qlast               \* the QuickFixClient operation that ran last

VARIABLES
    comp_ids,   \* the SENDERCOMPID / TARGETCOMPID pair of the FixClient's config
    pc,         \* per thread, the line of its send it stands at
    pending,    \* per thread, what its save_session_state is writing
    ret,        \* per thread, the number increment_seq returned to it
    wire,       \* the MsgSeqNum values the threads' sends wrote, in socket order
    clast       \* the step of a thread, or the crash, that ran last

VARIABLES
    sessions,        \* MultiFixClient.sessions: per key, the client it holds
    connecting,      \* per thread, where it is in connect_session
    cfg_file,        \* quickfix_client.cfg: "none", "empty", or whose settings
    user_sessions,   \* the web layer's user_sessions: per user, the session
    ordering,        \* per user, where the user's send_order request is
    active_session,  \* MultiFixClient.active_session
    disconnected,    \* the names whose client disconnect_session dropped,
                     \* since the last connect_session of the name
    orphans,         \* the names with a started client that neither sessions
                     \* nor a running call refers to
    mlast            \* the control-surface operation that ran last

VARIABLES
    custom_msg,          \* the text passed to send_custom_message: its 35 and
                         \* its other tag=value pairs
    encoded,             \* temp_encoded, the frame fix_message.encode() built
    actual_body_length,  \* the BodyLength send_custom_message computed from it
    response,            \* the bytes sock.recv returned to receive_messages
    fields,              \* the fields the parser delivered for them
    klast                \* the byte-level operation that ran last

VARIABLES
    quickfix_overrides,  \* QuickFixClient.quickfix_overrides: per key, the value
                         \* it sets, or "absent"
    cfg_defaults         \* the [DEFAULT] section of quickfix_client.cfg: per
                         \* key, the value written, or "absent"

fvars == <<seq, expected_seq, sent_messages, session_file, sock, running,
           receiver, gui_callback, last>>
qvars == <<session_id, logged_on, qrunning, connection_failed, connection_type,
           endpoint, engine, to_target, in_sessions, session_states,
           qlast>>
cvars == <<comp_ids, pc, pending, ret, wire, clast>>
mvars == <<sessions, connecting, cfg_file, user_sessions, ordering,
           active_session, disconnected, orphans, mlast>>
kvars == <<custom_msg, encoded, actual_body_length, response, fields, klast>>
gvars == <<quickfix_overrides, cfg_defaults>>
vars == <<fvars, qvars, cvars, mvars, kvars, gvars>>

\* MsgType values (tag 35) of the messages the model sends and receives.
Heartbeat == "0"
ResendRequest == "2"
Reject == "3"
SequenceReset == "4"
Logout == "5"
Logon == "A"
NewOrderSingle == "D"
ExecutionReport == "8"
OrderCancelReject == "9"

\* The end a ResendRequest with 16=0 stands for.
Infinity == 999999

NoFile == [exists |-> FALSE, outgoing_seq |-> 0, incoming_seq |-> 0,
           comp_ids |-> "none"]
NoMsg == [type |-> "none", seq |-> 0, dup |-> FALSE, newseq |-> 0,
          gapfill |-> FALSE, b |-> 0, e |-> 0, defect |-> "none", reset |-> FALSE]

\* An inbound frame as receive_messages reads it: 35, 34, 43, and for a
\* SequenceReset 36 and 123, for a ResendRequest 7 and 16. defect names what
\* makes the frame unprocessable: "bad34" (34 not a number), "no7" (a
\* ResendRequest without 7 or 16), "no36" (a SequenceReset without 36). reset
\* is whether the frame carries ResetSeqNumFlag 141=Y, a tag receive_messages
\* never reads.
InMsg(t, s, d, n, g, b, e, x) ==
    [type |-> t, seq |-> s, dup |-> d, newseq |-> n, gapfill |-> g,
     b |-> b, e |-> e, defect |-> x, reset |-> FALSE]

\* The frame m with 141=Y added.
WithResetSeqNumFlag(m) == [m EXCEPT !.reset = TRUE]

\* The MsgSeqNum values (tag 34) of inbound frames; 0 is also what a frame
\* without tag 34 is read as.
InSeqs == 0 .. MaxSeq

\* The header (34, 43) of an inbound frame: any number without 43=Y, and
\* number 1 with 43=Y (next_in ranges over 0..MaxSeq+1, so a PossDup frame is
\* met below, at and above next_in).
Headers == {<<s, FALSE>> : s \in InSeqs} \cup {<<1, TRUE>>}

\* The ranges (7, 16) of an inbound ResendRequest: 16 is 0 or at least 7.
Ranges == {<<b, e>> \in (1 .. MaxSeq) \X (0 .. MaxSeq) : e = 0 \/ b <= e}

\* The inbound frames. A SequenceReset is processed the same whatever its
\* header, a ResendRequest's header and range are used independently of each
\* other: the first comes with two headers, the second with every header on
\* one range and every range on one header. A Logon also comes with 141=Y.
InMsgs ==
    {InMsg(t, h[1], h[2], 0, FALSE, 0, 0, "none") :
        t \in {Heartbeat, Logout, Logon, ExecutionReport, OrderCancelReject},
        h \in Headers}
    \cup {InMsg(SequenceReset, 1, d, n, g, 0, 0, "none") :
        d \in BOOLEAN, n \in 0 .. MaxSeq, g \in BOOLEAN}
    \cup {InMsg(ResendRequest, h[1], h[2], 0, FALSE, 1, 0, "none") : h \in Headers}
    \cup {InMsg(ResendRequest, 1, FALSE, 0, FALSE, r[1], r[2], "none") : r \in Ranges}
    \cup {WithResetSeqNumFlag(InMsg(Logon, 1, FALSE, 0, FALSE, 0, 0, "none"))}
    \cup {InMsg(ExecutionReport, 0, FALSE, 0, FALSE, 0, 0, "bad34"),
          InMsg(ResendRequest, 1, FALSE, 0, FALSE, 0, 0, "no7"),
          InMsg(SequenceReset, 1, FALSE, 0, FALSE, 0, 0, "no36")}

\* An outbound message as it is written to the socket.
OutMsg(t, s, d, n, g, b, e) ==
    [type |-> t, seq |-> s, dup |-> d, newseq |-> n, gapfill |-> g,
     b |-> b, e |-> e]

\* The history record: op is the operation, m its inbound frame (NoMsg for a
\* caller's operation), seq0 and exp0 the counters before it, ok whether its
\* socket writes all succeeded, wrote the messages it put on the socket, gui
\* whether it invoked gui_callback.
Last(op, m, ok, wrote, gui) ==
    [op |-> op, m |-> m, seq0 |-> seq, exp0 |-> expected_seq, ok |-> ok,
     wrote |-> wrote, gui |-> gui]

\* save_session_state: the counters as written to session_state.json, with
\* the sender_comp_id and target_comp_id of the instance that writes them.
SavedState(s, x) ==
    [exists |-> TRUE, outgoing_seq |-> s, incoming_seq |-> x, comp_ids |-> comp_ids]

\* load_session_state: the counters a new instance starts with.
LoadedSeq(f) == IF f.exists THEN f.outgoing_seq ELSE 0
LoadedExpected(f) == IF f.exists THEN f.incoming_seq ELSE 1

\* sock.sendall: on no socket, and on a closed or unconnected one, the write
\* raises; on a connection it succeeds or raises (transport error).
WriteOutcomes(s) == IF s \in {"open", "peerclosed"} THEN BOOLEAN ELSE {FALSE}

\* construct_message's test: which MsgTypes are stored for resend.
Stored(t) == t \notin {"0", "1", "2", "4", "5"}

\* The dict assignment sent_messages[current_seq] = message.
Store(sm, s, t) == {p \in sm : p[1] # s} \cup {<<s, t>>}

\* construct_message: the store after a message of type t took number s.
Constructed(sm, s, t) == IF Stored(t) THEN Store(sm, s, t) ELSE sm

\* The MsgTypes a caller passes to send_raw_fix and send_custom_message;
\* "none" is a text without tag 35.
CallerTypes == {NewOrderSingle, Logon, Heartbeat, "none"}

Min(a, b) == IF a < b THEN a ELSE b

\* An increment_seq that restarts the numbering, as init_variables would.
RestartedSeq(s) == 1

\* increment_seq: the number the next outbound message takes.
IncrementSeq(s) == s + 1

\* Lines 380-390 with a test that skips the Logon as it skips the Heartbeat.
ExpectedAfterSkippingLogon(x, m) ==
    IF m.type \in {Heartbeat, Logon} THEN x
    ELSE IF m.type = ResendRequest THEN m.seq + 1
    ELSE IF ~m.dup THEN m.seq + 1
    ELSE x

\* Lines 380-390 of receive_messages: expected_seq after the MsgSeqNum of
\* frame m was handled, x being expected_seq before.
ExpectedAfter(x, m) ==
    IF m.type = Heartbeat THEN x
    ELSE IF m.type = ResendRequest THEN m.seq + 1
    ELSE IF ~m.dup THEN m.seq + 1
    ELSE x

\* handle_resend_request: the end of the range, 16=0 read as 999999.
EndSeq(m) == IF m.e = 0 THEN Infinity ELSE m.e

\* A handle_resend_request that forgets the min with self.seq of line 456.
RequestedEndSeq(m, s) == EndSeq(m)

ActualEndSeq(m, s) == Min(EndSeq(m), s)

\* send_gap_fill(begin_seq, new_seq): the one message handle_resend_request
\* answers with.
GapFill(b, n) == OutMsg(SequenceReset, b, TRUE, n, TRUE, 0, 0)
ResendResponse(m, s) == <<GapFill(m.b, ActualEndSeq(m, s) + 1)>>

\* handle_sequence_reset: expected_seq after a SequenceReset m.
ExpectedAfterReset(x, m) == m.newseq

\* disconnect's sock.close().
Closed(s) == IF s = "None" THEN "None" ELSE "closed"

FInit ==
    /\ seq = 0
    /\ expected_seq = 1
    /\ sent_messages = {}
    /\ session_file = NoFile
    /\ sock = "None"
    /\ running = FALSE
    /\ receiver = "none"
    /\ gui_callback \in BOOLEAN
    /\ last = [op |-> "init", m |-> NoMsg, seq0 |-> 0, exp0 |-> 1, ok |-> TRUE,
               wrote |-> <<>>, gui |-> FALSE]

\* connect: a new socket, then on a successful TCP connect running = True,
\* the receiver thread and send_logon (increment_seq, sendall).
Connect ==
    /\ seq < MaxSeq
    /\ \E conn \in BOOLEAN, ok \in BOOLEAN :
        /\ ~conn => ~ok
        /\ IF conn
           THEN /\ sock' = "open"
                /\ running' = TRUE
                /\ receiver' = "alive"
                /\ seq' = IncrementSeq(seq)
                /\ session_file' = SavedState(IncrementSeq(seq), expected_seq)
           ELSE /\ sock' = "closed"
                /\ UNCHANGED <<running, receiver, seq, session_file>>
        /\ last' = Last("connect", NoMsg, ok,
                        IF ok THEN <<OutMsg(Logon, IncrementSeq(seq), FALSE, 0, FALSE, 0, 0)>>
                        ELSE <<>>, FALSE)
    /\ UNCHANGED <<expected_seq, sent_messages, gui_callback>>
    /\ UNCHANGED <<qvars, cvars, mvars, kvars, gvars>>

\* disconnect.
Disconnect ==
    /\ running' = FALSE
    /\ sock' = Closed(sock)
    /\ last' = Last("disconnect", NoMsg, TRUE, <<>>, FALSE)
    /\ UNCHANGED <<seq, expected_seq, sent_messages, session_file, receiver,
                   gui_callback>>
    /\ UNCHANGED <<qvars, cvars, mvars, kvars, gvars>>

\* construct_message followed by sendall, as send_raw_fix and
\* send_custom_message run them for a text whose tag 35 is t.
ConstructAndSend(op, t, ok) ==
    /\ IF t = "none"
       THEN /\ UNCHANGED <<seq, session_file, sent_messages>>
            /\ last' = Last(op, NoMsg, TRUE, <<>>, FALSE)
       ELSE /\ seq < MaxSeq
            /\ ok \in WriteOutcomes(sock)
            /\ seq' = IncrementSeq(seq)
            /\ session_file' = SavedState(IncrementSeq(seq), expected_seq)
            /\ sent_messages' = Constructed(sent_messages, IncrementSeq(seq), t)
            /\ last' = Last(op, NoMsg, ok,
                            IF ok THEN <<OutMsg(t, IncrementSeq(seq), FALSE, 0, FALSE, 0, 0)>>
                            ELSE <<>>, FALSE)
    /\ UNCHANGED <<expected_seq, sock, running, receiver, gui_callback>>
    /\ UNCHANGED <<qvars, cvars, mvars, kvars, gvars>>

SendRawFix == \E t \in CallerTypes, ok \in BOOLEAN : ConstructAndSend("send_raw_fix", t, ok)

SendCustomMessage ==
    \E t \in CallerTypes, ok \in BOOLEAN : ConstructAndSend("send_custom_message", t, ok)

\* send_heartbeat, called by a caller (the receiver's call is in Receive).
SendHeartbeat ==
    /\ seq < MaxSeq
    /\ \E ok \in WriteOutcomes(sock) :
        last' = Last("send_heartbeat", NoMsg, ok,
                     IF ok THEN <<OutMsg(Heartbeat, IncrementSeq(seq), FALSE, 0, FALSE, 0, 0)>>
                     ELSE <<>>, FALSE)
    /\ seq' = IncrementSeq(seq)
    /\ session_file' = SavedState(IncrementSeq(seq), expected_seq)
    /\ UNCHANGED <<expected_seq, sent_messages, sock, running, receiver, gui_callback>>
    /\ UNCHANGED <<qvars, cvars, mvars, kvars, gvars>>

\* send_logout: construct_message("5"), sendall, then disconnect; a failed
\* write raises before disconnect.
SendLogout ==
    /\ seq < MaxSeq
    /\ \E ok \in WriteOutcomes(sock) :
        /\ last' = Last("send_logout", NoMsg, ok,
                        IF ok THEN <<OutMsg(Logout, IncrementSeq(seq), FALSE, 0, FALSE, 0, 0)>>
                        ELSE <<>>, FALSE)
        /\ IF ok
           THEN running' = FALSE /\ sock' = Closed(sock)
           ELSE UNCHANGED <<running, sock>>
    /\ seq' = IncrementSeq(seq)
    /\ session_file' = SavedState(IncrementSeq(seq), expected_seq)
    /\ sent_messages' = Constructed(sent_messages, IncrementSeq(seq), Logout)
    /\ UNCHANGED <<expected_seq, receiver, gui_callback>>
    /\ UNCHANGED <<qvars, cvars, mvars, kvars, gvars>>

\* The store after send_orders_from_file constructed c orders from seq s on.
StoreOrders(sm, s, c) ==
    {p \in sm : p[1] \notin (s + 1) .. (s + c)}
        \cup {<<k, NewOrderSingle>> : k \in (s + 1) .. (s + c)}

\* send_orders_from_file on a file of n order lines: f orders are written;
\* when f < n the next one is constructed, its write raises and the loop ends.
SendOrdersFromFile ==
    \E n \in 0 .. MaxOrders, f \in 0 .. MaxOrders :
        LET c == IF f < n THEN f + 1 ELSE n IN
        /\ f <= n
        /\ f > 0 => TRUE \in WriteOutcomes(sock)
        /\ seq + c <= MaxSeq
        /\ seq' = seq + c
        /\ session_file' = IF c = 0 THEN session_file
                           ELSE SavedState(seq + c, expected_seq)
        /\ sent_messages' = StoreOrders(sent_messages, seq, c)
        /\ last' = Last("send_orders_from_file", NoMsg, f = n,
                        [i \in 1 .. f |->
                            OutMsg(NewOrderSingle, seq + i, FALSE, 0, FALSE, 0, 0)],
                        FALSE)
        /\ UNCHANGED <<expected_seq, sock, running, receiver, gui_callback>>
        /\ UNCHANGED <<qvars, cvars, mvars, kvars, gvars>>

\* send_sequence_reset(new_seq): increment_seq, sendall, and only after a
\* successful write seq = new_seq - 1 and save_session_state.
SendSequenceReset ==
    /\ seq < MaxSeq
    /\ \E new_seq \in 0 .. MaxSeq, ok \in WriteOutcomes(sock) :
        /\ seq' = IF ok THEN new_seq - 1 ELSE IncrementSeq(seq)
        /\ session_file' = SavedState(IF ok THEN new_seq - 1 ELSE IncrementSeq(seq),
                                      expected_seq)
        /\ last' = Last("send_sequence_reset", NoMsg, ok,
                        IF ok THEN <<OutMsg(SequenceReset, IncrementSeq(seq), FALSE,
                                           new_seq, FALSE, 0, 0)>>
                        ELSE <<>>, FALSE)
    /\ UNCHANGED <<expected_seq, sent_messages, sock, running, receiver, gui_callback>>
    /\ UNCHANGED <<qvars, cvars, mvars, kvars, gvars>>

\* send_resend_request(begin_seq, end_seq).
SendResendRequest ==
    /\ seq < MaxSeq
    /\ \E b \in 1 .. MaxSeq, e \in 0 .. MaxSeq, ok \in WriteOutcomes(sock) :
        last' = Last("send_resend_request", NoMsg, ok,
                     IF ok THEN <<OutMsg(ResendRequest, IncrementSeq(seq), FALSE,
                                        0, FALSE, b, e)>>
                     ELSE <<>>, FALSE)
    /\ seq' = IncrementSeq(seq)
    /\ session_file' = SavedState(IncrementSeq(seq), expected_seq)
    /\ UNCHANGED <<expected_seq, sent_messages, sock, running, receiver, gui_callback>>
    /\ UNCHANGED <<qvars, cvars, mvars, kvars, gvars>>

\* What the receiver thread does with one frame m of the buffer (lines
\* 372-430); ok is the outcome of the socket write the frame leads to, or of
\* the gui_callback call an ExecutionReport leads to. An exception (a failed
\* write, int() of a bad 34, a missing 7, 16 or 36, an error raised by
\* gui_callback) is caught at line 425 with running still True: sys.exit(1)
\* ends the thread.
Receive ==
    /\ receiver = "alive" /\ running /\ sock = "open"
    /\ \E m \in InMsgs, ok \in BOOLEAN :
        LET x1 == ExpectedAfter(expected_seq, m)
            replies == m.type \in {Heartbeat, ResendRequest} /\ m.defect = "none"
            calls == m.type = ExecutionReport /\ m.defect = "none" /\ gui_callback
            raises == m.defect # "none" \/ ((replies \/ calls) /\ ~ok)
        IN
        /\ ~(replies \/ calls) => ok
        /\ m.type = Heartbeat => seq < MaxSeq
        /\ expected_seq' =
            IF m.defect = "bad34" THEN expected_seq
            ELSE IF m.type = SequenceReset /\ m.defect = "none"
                 THEN ExpectedAfterReset(x1, m)
            ELSE x1
        /\ seq' = IF m.type = Heartbeat THEN IncrementSeq(seq) ELSE seq
        /\ session_file' =
            IF m.defect = "bad34" THEN session_file
            ELSE IF m.type = Heartbeat
                 THEN SavedState(IncrementSeq(seq), x1)
            ELSE IF m.type = ResendRequest THEN SavedState(seq, x1)
            ELSE IF m.type = SequenceReset /\ m.defect = "none"
                 THEN SavedState(seq, ExpectedAfterReset(x1, m))
            ELSE session_file
        /\ running' = IF m.type = Logout /\ m.defect = "none" THEN FALSE ELSE running
        /\ sock' = IF m.type = Logout /\ m.defect = "none" THEN Closed(sock) ELSE sock
        /\ receiver' = IF raises \/ m.type = Logout THEN "dead" ELSE receiver
        /\ last' = Last("receive", m, ~raises,
                        IF ~replies \/ ~ok THEN <<>>
                        ELSE IF m.type = Heartbeat
                             THEN <<OutMsg(Heartbeat, IncrementSeq(seq), FALSE, 0,
                                           FALSE, 0, 0)>>
                        ELSE ResendResponse(m, seq),
                        calls)
    /\ UNCHANGED <<sent_messages, gui_callback>>
    /\ UNCHANGED <<qvars, cvars, mvars, kvars, gvars>>

\* recv returns no bytes (the peer closed) or raises while running is True:
\* sys.exit(1) ends the receiver thread; running and sock are left as they are.
PeerClose ==
    /\ receiver = "alive" /\ running /\ sock = "open"
    /\ receiver' = "dead"
    /\ sock' = "peerclosed"
    /\ last' = Last("peer_close", NoMsg, TRUE, <<>>, FALSE)
    /\ UNCHANGED <<seq, expected_seq, sent_messages, session_file, running,
                   gui_callback>>
    /\ UNCHANGED <<qvars, cvars, mvars, kvars, gvars>>

\* The receiver thread leaves its loop once running is False (line 359, or
\* line 430 when recv raises on the closed socket).
ReceiverExit ==
    /\ receiver = "alive" /\ ~running
    /\ receiver' = "dead"
    /\ last' = Last("receiver_exit", NoMsg, TRUE, <<>>, FALSE)
    /\ UNCHANGED <<seq, expected_seq, sent_messages, session_file, sock, running,
                   gui_callback>>
    /\ UNCHANGED <<qvars, cvars, mvars, kvars, gvars>>

\* More than 1.2 heartbeat intervals pass with no inbound frame: the receiver
\* thread stays blocked in sock.recv (line 361; the socket has no timeout and
\* the class starts no timer), so nothing is written and nothing changes.
Idle ==
    /\ receiver = "alive" /\ running /\ sock = "open"
    /\ last' = Last("idle", NoMsg, TRUE, <<>>, FALSE)
    /\ UNCHANGED <<seq, expected_seq, sent_messages, session_file, sock, running,
                   receiver, gui_callback>>
    /\ UNCHANGED <<qvars, cvars, mvars, kvars, gvars>>

\* The process ends and a new FixClient is constructed: init_variables and
\* load_session_state.
Restart ==
    /\ seq' = LoadedSeq(session_file)
    /\ expected_seq' = LoadedExpected(session_file)
    /\ sent_messages' = {}
    /\ sock' = "None"
    /\ running' = FALSE
    /\ receiver' = "none"
    /\ last' = [op |-> "restart", m |-> NoMsg, seq0 |-> LoadedSeq(session_file),
                exp0 |-> LoadedExpected(session_file), ok |-> TRUE,
                wrote |-> <<>>, gui |-> FALSE]
    /\ UNCHANGED <<session_file, gui_callback>>
    /\ UNCHANGED <<qvars, cvars, mvars, kvars, gvars>>

\* -------------------------------------------------------- QuickFixClient

\* log_message hands every line it logs to message_callback (lines 49-52).
\* What an operation's last log_message call passes: toAdmin and fromAdmin
\* end with "Sent Admin (t): <message>" and "Received Admin (t): <message>",
\* the text of the admin message; fromApp logs the inbound application
\* message (and passes an ExecutionReport to gui_callback, the same function
\* in MultiFixClient); the other operations log lines of status text.
CallbackArg(op) ==
    IF op \in {"toAdmin", "fromAdmin", "fromAdmin_reject"} THEN "admin"
    ELSE IF op = "fromApp" THEN "app"
    ELSE "text"

\* The history record of the QuickFixClient: op is the operation, ok what it
\* returned, sent whether it handed a message to fix.Session.sendToTarget,
\* lo0 the value of logged_on before it, callback what it passed to
\* message_callback.
QLast(op, ok, sent) ==
    [op |-> op, ok |-> ok, sent |-> sent, lo0 |-> logged_on,
     callback |-> CallbackArg(op)]

\* The keys of the [DEFAULT] section the model follows: ConnectionType, the
\* seven keys create_config_file sets last, and FileStorePath for the keys
\* it does not set itself.
ConfigKeys == {"ConnectionType", "ReconnectInterval", "ResetOnLogon",
               "ResetOnLogout", "ResetOnDisconnect", "ResetSeqNumFlag",
               "RefreshOnLogon", "PersistMessages", "FileStorePath"}

Absent == "absent"

\* The values a configuration gives a key.
ValuesOf(k) ==
    CASE k = "ConnectionType" -> {"initiator", "acceptor"}
      [] k = "ReconnectInterval" -> {"30", "60"}
      [] k = "FileStorePath" -> {"store", "store_a"}
      [] OTHER -> {"Y", "N"}

\* A dict over the keys: dict.update(o) keeps d's value where o has no key.
NoOverrides == [k \in ConfigKeys |-> Absent]
NoDefaults == [k \in ConfigKeys |-> Absent]
Update(d, o) == [k \in ConfigKeys |-> IF o[k] # Absent THEN o[k] ELSE d[k]]

\* load_default_config without quickfix_defaults.json.
DefaultConfig ==
    [k \in ConfigKeys |->
        CASE k = "ConnectionType" -> "initiator"
          [] k = "ReconnectInterval" -> "60"
          [] k = "FileStorePath" -> "store"
          [] OTHER -> Absent]

\* The "FIX standard compliant settings" create_config_file sets last.
StandardSettings ==
    [k \in ConfigKeys |->
        CASE k = "ReconnectInterval" -> "30"
          [] k \in {"ResetOnLogon", "ResetOnLogout", "ResetOnDisconnect",
                    "ResetSeqNumFlag", "RefreshOnLogon"} -> "N"
          [] k = "PersistMessages" -> "Y"
          [] OTHER -> Absent]

\* The [DEFAULT] section create_config_file writes for a client with the
\* overrides o and the connection type ctype: the defaults, updated with the
\* overrides, then ConnectionType, then the standard settings.
ConfigDefaults(o, ctype) ==
    Update([Update(DefaultConfig, o) EXCEPT !["ConnectionType"] = ctype],
           StandardSettings)

\* The overrides a client can be given: at most MaxOverrides keys are set.
OverrideSets ==
    UNION {{[k \in ConfigKeys |-> IF k \in K THEN v[k] ELSE Absent] :
                v \in {f \in [K -> UNION {ValuesOf(k) : k \in K}] :
                            \A k \in K : f[k] \in ValuesOf(k)}} :
           K \in {S \in SUBSET ConfigKeys : Cardinality(S) <= MaxOverrides}}

\* A new client has no overrides, and nothing has written the file.
GInit ==
    /\ quickfix_overrides = NoOverrides
    /\ cfg_defaults = NoDefaults

\* A client whose quickfix_overrides its owner has set.
GInputs ==
    /\ quickfix_overrides \in OverrideSets
    /\ cfg_defaults = NoDefaults

\* create_config_file.
CreateConfigFile ==
    /\ cfg_defaults' = ConfigDefaults(quickfix_overrides, connection_type)
    /\ UNCHANGED quickfix_overrides
    /\ UNCHANGED <<fvars, qvars, cvars, mvars, kvars>>

QInit ==
    /\ session_id = "None"
    /\ logged_on = FALSE
    /\ qrunning = FALSE
    /\ connection_failed = FALSE
    /\ connection_type \in {"initiator", "acceptor"}
    /\ endpoint = FALSE
    /\ engine = "absent"
    /\ to_target = 0
    /\ in_sessions = FALSE
    /\ session_states = "none"
    /\ qlast = [op |-> "init", ok |-> TRUE, sent |-> FALSE, lo0 |-> FALSE,
                callback |-> "none"]

\* fix.Session.lookupSession(session_id): whether QuickFIX knows the session.
LookupSession(e) == e # "absent"

\* fix.Session.sendToTarget(message, session_id): raises SessionNotFound for
\* an unknown session, else takes the message; it returns whether the message
\* was transmitted, which a session that is not logged on does not do.
Handed(e) == e # "absent"
SendResult(e) == e = "logon"

\* connect: the state is cleared first and create_config_file writes
\* quickfix_client.cfg, then the settings and the initiator (acceptor) are
\* built and started. QuickFIX creates the session and calls
\* onCreate (which clears the same fields) inside the constructor. out is
\* "made", or the place an exception ends the call: "early" (before the old
\* initiator is destroyed) or "late" (building or starting the new one).
\* MultiFixClient.connect_session, its caller, puts the client in sessions.
QConnect ==
    /\ \E out \in {"made", "early", "late"} :
        /\ session_id' = "None"
        /\ logged_on' = FALSE
        /\ connection_failed' = FALSE
        /\ qrunning' = (out = "made")
        /\ endpoint' = IF out = "made" THEN TRUE
                       ELSE IF out = "early" THEN endpoint
                       ELSE connection_type = "acceptor"
        /\ engine' = IF out = "made" THEN "created"
                     ELSE IF out = "early" THEN engine
                     ELSE IF connection_type = "acceptor" THEN "created"
                     ELSE "absent"
        /\ qlast' = QLast("connect", out = "made", FALSE)
    /\ in_sessions' = TRUE
    /\ cfg_defaults' = ConfigDefaults(quickfix_overrides, connection_type)
    /\ UNCHANGED <<session_states, connection_type, to_target, quickfix_overrides>>
    /\ UNCHANGED <<fvars, cvars, mvars, kvars>>

\* disconnect: the initiator (acceptor) is stopped only when it exists and
\* running is True; the flags and session_id are cleared. Its callers
\* (MultiFixClient.disconnect_session, disconnect_current, connect_session)
\* then drop the client from sessions.
QDisconnect ==
    /\ engine' = IF endpoint /\ qrunning THEN "absent" ELSE engine
    /\ endpoint' = IF endpoint /\ qrunning THEN FALSE ELSE endpoint
    /\ qrunning' = FALSE
    /\ logged_on' = FALSE
    /\ session_id' = "None"
    /\ in_sessions' = FALSE
    /\ UNCHANGED session_states
    /\ qlast' = QLast("disconnect", TRUE, FALSE)
    /\ UNCHANGED <<connection_failed, connection_type, to_target>>
    /\ UNCHANGED <<fvars, cvars, mvars, kvars, gvars>>

\* onLogon, called by QuickFIX when the logon handshake is complete. It sets
\* session_id and ends with session_callback('connected', sessionID), which
\* is MultiFixClient.session_state_callback: that stores the state under the
\* name of the client in sessions whose session_id is the reported one.
OnLogon ==
    /\ engine = "created"
    /\ engine' = "logon"
    /\ logged_on' = TRUE
    /\ connection_failed' = FALSE
    /\ session_id' = "SID"
    /\ qlast' = QLast("onLogon", TRUE, FALSE)
    /\ session_states' = IF in_sessions THEN "connected" ELSE session_states
    /\ UNCHANGED <<qrunning, connection_type, in_sessions, endpoint, to_target>>
    /\ UNCHANGED <<fvars, cvars, mvars, kvars, gvars>>

\* onLogout, called by QuickFIX when a session that sent or received a Logon
\* is disconnected. It clears session_id and then calls
\* session_callback('disconnected', sessionID): session_state_callback finds
\* no client whose session_id is the reported one, so the entry under the
\* client's name stays as it was.
OnLogout ==
    /\ engine # "absent"
    /\ engine' = "created"
    /\ logged_on' = FALSE
    /\ session_id' = "None"
    /\ qlast' = QLast("onLogout", TRUE, FALSE)
    /\ UNCHANGED <<qrunning, connection_failed, connection_type, in_sessions, session_states, endpoint, to_target>>
    /\ UNCHANGED <<fvars, cvars, mvars, kvars, gvars>>

\* toAdmin for an outbound admin message of type t. For a Heartbeat the
\* session is looked up, and cleared when QuickFIX does not know it.
ToAdmin ==
    /\ engine # "absent"
    /\ \E t \in {Logon, Heartbeat, Logout} :
        LET lost == t = Heartbeat /\ session_id # "None" /\ ~LookupSession(engine) IN
        /\ logged_on' = IF lost THEN FALSE ELSE logged_on
        /\ session_id' = IF lost THEN "None" ELSE session_id
        /\ qlast' = QLast("toAdmin", TRUE, FALSE)
    /\ UNCHANGED <<qrunning, connection_failed, connection_type, in_sessions, session_states, endpoint, engine,
                   to_target>>
    /\ UNCHANGED <<fvars, cvars, mvars, kvars, gvars>>

\* fromAdmin for an inbound admin message of type t: a Reject (35=3) sets
\* connection_failed and clears logged_on; session_id is left as it is.
FromAdmin ==
    /\ engine # "absent"
    /\ \E t \in {Reject, ResendRequest, SequenceReset, Heartbeat, Logout, Logon} :
        /\ connection_failed' = IF t = Reject THEN TRUE ELSE connection_failed
        /\ logged_on' = IF t = Reject THEN FALSE ELSE logged_on
        /\ qlast' = QLast(IF t = Reject THEN "fromAdmin_reject" ELSE "fromAdmin",
                          TRUE, FALSE)
    /\ UNCHANGED <<session_id, qrunning, connection_type, in_sessions, session_states, endpoint, engine, to_target>>
    /\ UNCHANGED <<fvars, cvars, mvars, kvars, gvars>>

\* fromApp for an inbound application message, which QuickFIX delivers on a
\* session that is logged on.
FromApp ==
    /\ engine = "logon"
    /\ \E t \in {ExecutionReport, OrderCancelReject} :
        qlast' = QLast("fromApp", TRUE, FALSE)
    /\ UNCHANGED <<session_id, logged_on, qrunning, connection_failed,
                   connection_type, in_sessions, session_states, endpoint,
                   engine, to_target>>
    /\ UNCHANGED <<fvars, cvars, mvars, kvars, gvars>>

\* The send operations that test session_id only (send_order_cancel_request,
\* send_order_cancel_replace_request, send_raw_fix, send_custom_message,
\* send_sequence_reset): without session_id they return False; with it they
\* call sendToTarget, return True, and return False when it raises. typed is
\* whether the text of send_raw_fix or send_custom_message holds a tag 35.
SendChecked(op, typed) ==
    LET handed == session_id # "None" /\ typed /\ Handed(engine) IN
    /\ to_target < MaxSent
    /\ to_target' = IF handed THEN to_target + 1 ELSE to_target
    /\ qlast' = QLast(op, handed, handed)
    /\ UNCHANGED <<session_id, logged_on, qrunning, connection_failed,
                   connection_type, in_sessions, session_states, endpoint,
                   engine>>
    /\ UNCHANGED <<fvars, cvars, mvars, kvars, gvars>>

QSendOrderCancelRequest == SendChecked("send_order_cancel_request", TRUE)

QSendOrderCancelReplaceRequest == SendChecked("send_order_cancel_replace_request", TRUE)

QSendRawFix == \E typed \in BOOLEAN : SendChecked("send_raw_fix", typed)

QSendCustomMessage == \E typed \in BOOLEAN : SendChecked("send_custom_message", typed)

QSendSequenceReset == SendChecked("send_sequence_reset", TRUE)

\* send_new_order_single: it also tests logged_on and running, looks the
\* session up (clearing logged_on and session_id when QuickFIX does not know
\* it) and returns False when sendToTarget does.
QSendNewOrderSingle ==
    LET ready == session_id # "None" /\ logged_on /\ qrunning
        stale == ready /\ ~LookupSession(engine)
        handed == ready /\ ~stale /\ Handed(engine)
    IN
    /\ to_target < MaxSent
    /\ logged_on' = IF stale THEN FALSE ELSE logged_on
    /\ session_id' = IF stale THEN "None" ELSE session_id
    /\ to_target' = IF handed THEN to_target + 1 ELSE to_target
    /\ qlast' = QLast("send_new_order_single", handed /\ SendResult(engine), handed)
    /\ UNCHANGED <<qrunning, connection_failed, connection_type, in_sessions, session_states, endpoint, engine>>
    /\ UNCHANGED <<fvars, cvars, mvars, kvars, gvars>>

\* set_sequence_numbers of the web layer, for a session whose client is in
\* sessions: a missing session_id is created from the configuration, then
\* set_next_sender_seq / set_next_target_seq look the session up.
SetSequenceNumbers ==
    /\ in_sessions
    /\ session_id' = "SID"
    /\ qlast' = QLast("set_sequence_numbers", LookupSession(engine), FALSE)
    /\ UNCHANGED <<logged_on, qrunning, connection_failed, connection_type,
                   in_sessions, session_states, endpoint, engine, to_target>>
    /\ UNCHANGED <<fvars, cvars, mvars, kvars, gvars>>

\* --------------------------------------------------- FixClient's threads

\* The threads that send on one FixClient: a caller running
\* send_custom_message for an order, and the receiver thread answering a
\* Heartbeat through send_heartbeat. A thread can be switched out where it
\* calls into the file or the socket, which is where the steps below end.
Threads == {"caller", "receiver"}

\* The SenderCompId / TargetCompId pairs a sendfix.cfg names.
CompIds == {"CLIENT1/SERVER1", "CLIENT2/SERVER2"}

\* session_state.json after open(SESSION_FILE, 'w') and before json.dump: it
\* is empty, json.load raises on it and load_session_state leaves the counters
\* of init_variables, as for a missing file.
TruncatedFile == [NoFile EXCEPT !.comp_ids = "truncated"]

\* A thread that is not inside save_session_state.
NoSave == [saving |-> FALSE, before |-> NoFile, new |-> NoFile]

CInit ==
    /\ comp_ids = "CLIENT1/SERVER1"
    /\ pc = [t \in Threads |-> "idle"]
    /\ pending = [t \in Threads |-> NoSave]
    /\ ret = [t \in Threads |-> 0]
    /\ wire = <<>>
    /\ clast = [op |-> "init", thread |-> "none"]

\* Line 106 of increment_seq, self.seq += 1, reached by the caller through
\* construct_message and by the receiver (on an inbound Heartbeat) through
\* send_heartbeat.
SeqIncrement(t) ==
    /\ pc[t] = "idle"
    /\ seq < MaxThreadSeq
    /\ t = "receiver" => (receiver = "alive" /\ running /\ sock = "open")
    /\ seq' = IncrementSeq(seq)
    /\ pc' = [pc EXCEPT ![t] = "open"]
    /\ clast' = [op |-> "increment", thread |-> t]
    /\ UNCHANGED <<expected_seq, sent_messages, session_file, sock, running,
                   receiver, gui_callback, last>>
    /\ UNCHANGED <<comp_ids, pending, ret, wire>>
    /\ UNCHANGED <<qvars, mvars, kvars, gvars>>

\* Lines 93-100 of save_session_state: the dict is built from the counters as
\* they are now, and open(..., 'w') empties the file. before is the last
\* complete content of the file.
SaveOpen(t) ==
    /\ pc[t] = "open"
    /\ pending' = [pending EXCEPT ![t] =
            [saving |-> TRUE,
             before |-> IF \E u \in Threads : pending[u].saving
                        THEN pending[CHOOSE u \in Threads : pending[u].saving].before
                        ELSE session_file,
             new |-> SavedState(seq, expected_seq)]]
    /\ session_file' = TruncatedFile
    /\ pc' = [pc EXCEPT ![t] = "dump"]
    /\ clast' = [op |-> "open", thread |-> t]
    /\ UNCHANGED <<seq, expected_seq, sent_messages, sock, running, receiver,
                   gui_callback, last>>
    /\ UNCHANGED <<comp_ids, ret, wire>>
    /\ UNCHANGED <<qvars, mvars, kvars, gvars>>

\* Line 101 of save_session_state: json.dump writes the dict and the file is
\* closed.
SaveDump(t) ==
    /\ pc[t] = "dump"
    /\ session_file' = pending[t].new
    /\ pending' = [pending EXCEPT ![t] = NoSave]
    /\ pc' = [pc EXCEPT ![t] = "return"]
    /\ clast' = [op |-> "dump", thread |-> t]
    /\ UNCHANGED <<seq, expected_seq, sent_messages, sock, running, receiver,
                   gui_callback, last>>
    /\ UNCHANGED <<comp_ids, ret, wire>>
    /\ UNCHANGED <<qvars, mvars, kvars, gvars>>

\* Line 108 of increment_seq, return self.seq: the thread takes the value seq
\* has now as its MsgSeqNum; the caller's construct_message stores the order
\* under it (lines 153-163).
SeqReturn(t) ==
    /\ pc[t] = "return"
    /\ ret' = [ret EXCEPT ![t] = seq]
    /\ sent_messages' = IF t = "caller"
                        THEN Constructed(sent_messages, seq, NewOrderSingle)
                        ELSE sent_messages
    /\ pc' = [pc EXCEPT ![t] = "sendall"]
    /\ clast' = [op |-> "return", thread |-> t]
    /\ UNCHANGED <<seq, expected_seq, session_file, sock, running, receiver,
                   gui_callback, last>>
    /\ UNCHANGED <<comp_ids, pending, wire>>
    /\ UNCHANGED <<qvars, mvars, kvars, gvars>>

\* self.sock.sendall(encoded_msg) of send_custom_message (line 225) and of
\* send_heartbeat (line 442). A failed write is logged by the caller's send
\* and ends the receiver thread.
SockSendall(t) ==
    /\ pc[t] = "sendall"
    /\ \E ok \in WriteOutcomes(sock) :
        /\ wire' = IF ok THEN Append(wire, ret[t]) ELSE wire
        /\ receiver' = IF t = "receiver" /\ ~ok THEN "dead" ELSE receiver
    /\ ret' = [ret EXCEPT ![t] = 0]
    /\ pc' = [pc EXCEPT ![t] = "idle"]
    /\ clast' = [op |-> "sendall", thread |-> t]
    /\ UNCHANGED <<seq, expected_seq, sent_messages, session_file, sock, running,
                   gui_callback, last>>
    /\ UNCHANGED <<comp_ids, pending>>
    /\ UNCHANGED <<qvars, mvars, kvars, gvars>>

\* The process is killed, wherever its threads stand, and a new FixClient is
\* constructed under the sendfix.cfg of that moment: init_variables and
\* load_session_state on the file as the old process left it.
Crash ==
    /\ \E c \in CompIds : comp_ids' = c
    /\ seq' = LoadedSeq(session_file)
    /\ expected_seq' = LoadedExpected(session_file)
    /\ sent_messages' = {}
    /\ sock' = "None"
    /\ running' = FALSE
    /\ receiver' = "none"
    /\ pc' = [t \in Threads |-> "idle"]
    /\ pending' = [t \in Threads |-> NoSave]
    /\ ret' = [t \in Threads |-> 0]
    /\ wire' = <<>>
    /\ clast' = [op |-> "crash", thread |-> "none"]
    /\ last' = [op |-> "restart", m |-> NoMsg, seq0 |-> LoadedSeq(session_file),
                exp0 |-> LoadedExpected(session_file), ok |-> TRUE,
                wrote |-> <<>>, gui |-> FALSE]
    /\ UNCHANGED <<session_file, gui_callback>>
    /\ UNCHANGED <<qvars, mvars, kvars, gvars>>

\* ---------------------------------- MultiFixClient and the control surface

\* The names of the session configurations (multi_session_config.json).
SessionNames == {"A", "B"}

\* A name that no configuration has.
UnknownName == "X"

\* The 'FIX.x:SENDER->TARGET' form of a configured session.
IdOf(n) == IF n = "A" THEN "FIX.4.2:SENDA->TARGA" ELSE "FIX.4.2:SENDB->TARGB"

SessionIds == {IdOf(n) : n \in SessionNames}

\* The strings that resolve to a configuration: the keys sessions can get.
SessionKeys == SessionNames \cup SessionIds

\* The lookup of login_session and get_session_name_from_id: the id form is
\* tried first, then the name; "none" when neither matches.
NameOf(k) ==
    IF k \in SessionIds THEN CHOOSE n \in SessionNames : IdOf(n) = k
    ELSE IF k \in SessionNames THEN k
    ELSE "none"

\* session_config['quickfix_overrides'] of each configuration: A has one,
\* B has none.
SessionOverrides(n) ==
    IF n = "A" THEN [NoOverrides EXCEPT !["FileStorePath"] = "store_a"]
    ELSE NoOverrides

\* The override login_session sets for reset_seq: {"ResetSeqNumFlag": "Y"}.
ResetOverride == [NoOverrides EXCEPT !["ResetSeqNumFlag"] = "Y"]

\* The threads that run connect_session: the web layer starts one for every
\* /api/connect request; the CLI calls it on its own thread, CliThread.
Connectors == {"t1", "t2"}
CliThread == "t1"

\* The thread of the /api/connect request for session n, when there is one
\* request for each session.
ThreadFor(n) == IF n = "A" THEN "t1" ELSE "t2"

\* The users of the web layer.
Users == {"u1", "u2"}

\* A QuickFixClient as the control surface sees it: its flags, the session
\* whose settings its initiator was started with, and its quickfix_overrides.
NoClient == [present |-> FALSE, running |-> FALSE, logged_on |-> FALSE,
             session_id |-> FALSE, settings |-> "none",
             overrides |-> NoOverrides]

\* A thread that is not inside connect_session. Inside, name is the session
\* it connects, overrides the quickfix_overrides of the client it made, and
\* reset whether login_session called it with reset_seq.
NotConnecting == [at |-> "idle", name |-> "none", reset |-> FALSE,
                  overrides |-> NoOverrides]

\* A request that is not inside send_order. Inside, user_session is the
\* user's session as the request read it and body the session_name of the
\* request ("none" when it has none).
NotOrdering == [at |-> "idle", user_session |-> "none", body |-> "none"]

\* QuickFixClient.is_connected of an initiator.
IsConnected(c) == c.running /\ c.session_id /\ c.logged_on

\* The web layer's own test: client.session_id and client.running.
SessionUp(c) == c.session_id /\ c.running

\* What send_new_order_single tests before sendToTarget.
OrderReady(c) == c.session_id /\ c.logged_on /\ c.running

\* active_session after the client under n was dropped: disconnect_session
\* clears it when it names n; the variant keeps it.
ActiveKept(a, n) == a
ActiveAfterDrop(a, n) == IF a = n THEN "none" ELSE a

\* The history record of the control surface: op is the operation, to the
\* session the request names, via the session it transmitted on ("none" when
\* nothing was sent), ok whether it reported success; for send_order, user
\* is the user and own the user's session as the request read it.
MLast(op, to, via) == [op |-> op, to |-> to, via |-> via, ok |-> via # "none",
                       user |-> "none", own |-> "none"]

MInit ==
    /\ sessions = [k \in SessionKeys |-> NoClient]
    /\ connecting = [t \in Connectors |-> NotConnecting]
    /\ cfg_file = "none"
    /\ user_sessions = [u \in Users |-> "none"]
    /\ ordering = [u \in Users |-> NotOrdering]
    /\ active_session = "none"
    /\ disconnected = {}
    /\ orphans = {}
    /\ mlast = MLast("init", "none", "none")

\* connect_session(n) on thread t, with sessions as held, up to the
\* open('quickfix_client.cfg', 'w') of create_config_file: a connected client
\* is kept; any other is disconnected and dropped; a name without a
\* configuration ends the call; else a new client is made with the
\* configuration's overrides and its connect truncates the file.
BeginConnect(t, n, reset, held) ==
    IF n \in SessionKeys /\ held[n].present /\ IsConnected(held[n])
    THEN /\ active_session' = n
         /\ sessions' = held
         /\ UNCHANGED <<connecting, cfg_file, cfg_defaults>>
    ELSE IF n \notin SessionNames
    THEN /\ sessions' = IF n \in SessionKeys THEN [held EXCEPT ![n] = NoClient]
                        ELSE held
         /\ UNCHANGED <<connecting, cfg_file, cfg_defaults, active_session>>
    ELSE /\ sessions' = [held EXCEPT ![n] = NoClient]
         /\ connecting' = [connecting EXCEPT ![t] =
                [at |-> "opened", name |-> n, reset |-> reset,
                 overrides |-> SessionOverrides(n)]]
         /\ cfg_file' = "empty"
         /\ cfg_defaults' = NoDefaults
         /\ UNCHANGED active_session

\* connect_session(n) called on thread t, up to the open() of the file.
ConnectSession(t, n) ==
    /\ connecting[t].at = "idle"
    /\ BeginConnect(t, n, FALSE, sessions)
    /\ disconnected' = disconnected \ {n}
    /\ mlast' = MLast("connect_session", n, "none")
    /\ UNCHANGED <<user_sessions, ordering, orphans, quickfix_overrides>>
    /\ UNCHANGED <<fvars, qvars, cvars, kvars>>

\* create_config_file's f.write(config_content), with the client's own
\* SenderCompID, TargetCompID, host and port, and the [DEFAULT] section made
\* from the client's quickfix_overrides.
ConfigWrite(t) ==
    /\ connecting[t].at = "opened"
    /\ cfg_file' = connecting[t].name
    /\ cfg_defaults' = ConfigDefaults(connecting[t].overrides, "initiator")
    /\ connecting' = [connecting EXCEPT ![t].at = "written"]
    /\ mlast' = MLast("create_config_file", connecting[t].name, "none")
    /\ UNCHANGED <<sessions, user_sessions, ordering, active_session,
                   disconnected, orphans, quickfix_overrides>>
    /\ UNCHANGED <<fvars, qvars, cvars, kvars>>

\* The rest of connect and of connect_session: fix.SessionSettings reads
\* quickfix_client.cfg as it is now, the initiator is started with these
\* settings, and the client is put in sessions. A file without a session
\* makes QuickFIX raise: connect returns False and the client, not running,
\* is put in sessions all the same. A started client that sessions held
\* under the name is replaced without being stopped: nothing refers to it
\* any more.
LoadSettings(t) ==
    LET n == connecting[t].name IN
    /\ connecting[t].at = "written"
    /\ sessions' = [sessions EXCEPT ![n] =
            [present |-> TRUE, running |-> cfg_file # "empty",
             logged_on |-> FALSE, session_id |-> FALSE,
             settings |-> IF cfg_file = "empty" THEN "none" ELSE cfg_file,
             overrides |-> connecting[t].overrides]]
    /\ orphans' = IF sessions[n].present /\ sessions[n].running
                  THEN orphans \cup {n} ELSE orphans
    /\ connecting' = [connecting EXCEPT ![t] = NotConnecting]
    /\ active_session' = n
    /\ disconnected' = disconnected \ {n}
    /\ mlast' = MLast("connect", n, "none")
    /\ UNCHANGED <<cfg_file, user_sessions, ordering>>
    /\ UNCHANGED <<fvars, qvars, cvars, kvars, gvars>>

\* onLogon of the client of session n.
SessionLogon(n) ==
    /\ sessions[n].present /\ sessions[n].running
    /\ sessions' = [sessions EXCEPT ![n].logged_on = TRUE, ![n].session_id = TRUE]
    /\ mlast' = MLast("onLogon", n, "none")
    /\ UNCHANGED <<connecting, cfg_file, user_sessions, ordering, active_session,
                   disconnected, orphans>>
    /\ UNCHANGED <<fvars, qvars, cvars, kvars, gvars>>

\* onLogout of the client of session n.
SessionLogout(n) ==
    /\ sessions[n].present /\ sessions[n].logged_on
    /\ sessions' = [sessions EXCEPT ![n].logged_on = FALSE, ![n].session_id = FALSE]
    /\ mlast' = MLast("onLogout", n, "none")
    /\ UNCHANGED <<connecting, cfg_file, user_sessions, ordering, active_session,
                   disconnected, orphans>>
    /\ UNCHANGED <<fvars, qvars, cvars, kvars, gvars>>

\* disconnect_session(n).
DisconnectSession(n) ==
    /\ sessions' = [sessions EXCEPT ![n] = NoClient]
    /\ active_session' = IF sessions[n].present
                         THEN ActiveAfterDrop(active_session, n)
                         ELSE active_session
    /\ disconnected' = IF sessions[n].present THEN disconnected \cup {n}
                       ELSE disconnected
    /\ mlast' = MLast("disconnect_session", n, "none")
    /\ UNCHANGED <<connecting, cfg_file, user_sessions, ordering, orphans>>
    /\ UNCHANGED <<fvars, qvars, cvars, kvars, gvars>>

\* disconnect_current: the active session's client, when sessions holds it,
\* is disconnected and dropped, and active_session is cleared.
DisconnectCurrent ==
    LET held == active_session # "none" /\ sessions[active_session].present IN
    /\ sessions' = IF held THEN [sessions EXCEPT ![active_session] = NoClient]
                   ELSE sessions
    /\ active_session' = IF held THEN "none" ELSE active_session
    /\ mlast' = MLast("disconnect_current", active_session, "none")
    /\ UNCHANGED <<connecting, cfg_file, user_sessions, ordering, disconnected,
                   orphans>>
    /\ UNCHANGED <<fvars, qvars, cvars, kvars, gvars>>

\* /api/set_user_session of user u.
SetUserSession(u, n) ==
    /\ user_sessions' = [user_sessions EXCEPT ![u] = n]
    /\ mlast' = MLast("set_user_session", n, "none")
    /\ UNCHANGED <<sessions, connecting, cfg_file, ordering, active_session,
                   disconnected, orphans>>
    /\ UNCHANGED <<fvars, qvars, cvars, kvars, gvars>>

\* /api/send_order of user u, running alone, with session_name = body in the
\* request ("none" when the request has none): the user's session is tested
\* first and made the active one; a session_name that is in sessions then
\* replaces it; the order goes to get_current_client().
WebSendOrder(u) ==
    \E body \in SessionNames \cup {"none"} :
        LET us == user_sessions[u]
            to == IF body # "none" THEN body ELSE us
            passed == /\ us # "none"
                      /\ sessions[us].present
                      /\ IsConnected(sessions[us])
            named == body # "none" /\ sessions[body].present
            refused == named /\ ~SessionUp(sessions[body])
            current == IF named /\ ~refused THEN body ELSE us
        IN
        /\ active_session' = IF passed THEN current ELSE active_session
        /\ mlast' = [MLast("send_order", to,
                           IF passed /\ ~refused /\ OrderReady(sessions[current])
                           THEN current ELSE "none")
                        EXCEPT !.user = u, !.own = us]
        /\ UNCHANGED <<sessions, connecting, cfg_file, user_sessions, ordering,
                       disconnected, orphans>>
        /\ UNCHANGED <<fvars, qvars, cvars, kvars, gvars>>

\* /api/send_order of user u with session_name = body in the request, up to
\* the session it makes the active one (the tests of the user's session,
\* multi_client.active_session = user_session, and the session_name of the
\* request).
SendOrderSelect(u, body) ==
        LET us == user_sessions[u]
            passed == /\ us # "none"
                      /\ sessions[us].present
                      /\ IsConnected(sessions[us])
            named == body # "none" /\ sessions[body].present
            refused == named /\ ~SessionUp(sessions[body])
            current == IF named /\ ~refused THEN body ELSE us
        IN
        /\ ordering[u].at = "idle"
        /\ active_session' = IF passed THEN current ELSE active_session
        /\ ordering' = [ordering EXCEPT ![u] =
                IF passed /\ ~refused
                THEN [at |-> "selected", user_session |-> us, body |-> body]
                ELSE NotOrdering]
        /\ mlast' = [MLast("send_order_select",
                           IF body # "none" THEN body ELSE us, "none")
                        EXCEPT !.user = u, !.own = us]
        /\ UNCHANGED <<sessions, connecting, cfg_file, user_sessions,
                       disconnected, orphans>>
        /\ UNCHANGED <<fvars, qvars, cvars, kvars, gvars>>

\* The rest of send_order: client = multi_client.get_current_client(), the
\* look at multi_client.sessions[user_session], and send_new_order_single on
\* that client. Without a current client, or without the user's session in
\* sessions, the request ends in its except branch.
SendOrderTransmit(u) ==
    LET us == ordering[u].user_session
        body == ordering[u].body
        current == active_session
        found == /\ current # "none"
                 /\ sessions[current].present
                 /\ sessions[us].present
    IN
    /\ ordering[u].at = "selected"
    /\ ordering' = [ordering EXCEPT ![u] = NotOrdering]
    /\ mlast' = [MLast("send_order", IF body # "none" THEN body ELSE us,
                       IF found /\ OrderReady(sessions[current])
                       THEN current ELSE "none")
                    EXCEPT !.user = u, !.own = us]
    /\ UNCHANGED <<sessions, connecting, cfg_file, user_sessions, active_session,
                   disconnected, orphans>>
    /\ UNCHANGED <<fvars, qvars, cvars, kvars, gvars>>

\* /api/replace_order and /api/cancel_order of user u: the user's session
\* must be in sessions with session_id and running; the request goes to its
\* client.
WebUserSend(op, u) ==
    LET us == user_sessions[u]
        passed == /\ us # "none"
                  /\ sessions[us].present
                  /\ SessionUp(sessions[us])
    IN
    /\ active_session' = IF passed THEN us ELSE active_session
    /\ mlast' = MLast(op, us, IF passed THEN us ELSE "none")
    /\ UNCHANGED <<sessions, connecting, cfg_file, user_sessions, ordering,
                   disconnected, orphans>>
    /\ UNCHANGED <<fvars, qvars, cvars, kvars, gvars>>

WebReplaceOrder == WebUserSend("replace_order", "u1")

WebCancelOrder == WebUserSend("cancel_order", "u1")

\* /api/send_raw_fix and /api/send_custom_message with session_name = n.
WebNamedSend(op, n) ==
    /\ mlast' = MLast(op, n,
                      IF sessions[n].present /\ SessionUp(sessions[n]) THEN n
                      ELSE "none")
    /\ UNCHANGED <<sessions, connecting, cfg_file, user_sessions, ordering,
                   active_session, disconnected, orphans>>
    /\ UNCHANGED <<fvars, qvars, cvars, kvars, gvars>>

WebSendRawFix == \E n \in SessionNames : WebNamedSend("web_send_raw_fix", n)

WebSendCustomMessage == \E n \in SessionNames : WebNamedSend("web_send_custom_message", n)

\* SendFixCLI.send_order and send_raw_fix for session n.
CliSend(op, n) ==
    /\ mlast' = MLast(op, n,
                      IF sessions[n].present /\ IsConnected(sessions[n]) THEN n
                      ELSE "none")
    /\ UNCHANGED <<sessions, connecting, cfg_file, user_sessions, ordering,
                   active_session, disconnected, orphans>>
    /\ UNCHANGED <<fvars, qvars, cvars, kvars, gvars>>

CliSendOrder == \E n \in SessionNames : CliSend("cli_send_order", n)

CliSendRawFix == \E n \in SessionNames : CliSend("cli_send_raw_fix", n)

\* SendFixCLI.login_session(k, reset_seq), up to the open() of the file in
\* the connect_session it calls. k is resolved to a configured name; a name
\* that is connected ends the call. With reset_seq a client that carries the
\* ResetSeqNumFlag override is put in sessions under k itself when k is not
\* a key (else the override is set on the client under k); connect_session
\* is then called with the name.
CliLoginSession(k, reset_seq) ==
    LET name == NameOf(k)
        held == IF ~reset_seq THEN sessions
                ELSE IF sessions[k].present
                THEN [sessions EXCEPT ![k].overrides = ResetOverride]
                ELSE [sessions EXCEPT ![k] =
                        [NoClient EXCEPT !.present = TRUE,
                                         !.overrides = ResetOverride]]
    IN
    /\ connecting[CliThread].at = "idle"
    /\ IF name = "none"
       THEN UNCHANGED <<sessions, connecting, cfg_file, active_session,
                        cfg_defaults, disconnected>>
       ELSE IF sessions[name].present /\ IsConnected(sessions[name])
       THEN UNCHANGED <<sessions, connecting, cfg_file, active_session,
                        cfg_defaults, disconnected>>
       ELSE /\ BeginConnect(CliThread, name, reset_seq, held)
            /\ disconnected' = disconnected \ {name}
    /\ mlast' = MLast("login_session", k, "none")
    /\ UNCHANGED <<user_sessions, ordering, orphans, quickfix_overrides>>
    /\ UNCHANGED <<fvars, qvars, cvars, kvars>>

\* ------------------------------------------------- FixClient's byte level

\* Bytes are one-character strings, frames sequences of them.
SOH == "^A"

\* The most tag=value pairs, besides 35, of a text in the model.
MaxPairs == 2

\* One field on the wire: tag=value and the SOH that ends it.
Field(tag, value) == tag \o <<"=">> \o value \o <<SOH>>

\* The tag=value pairs a caller, or the peer, puts in a message.
Pairs ==
    { <<<<"5", "5">>, <<"I", "B", "M">>>>,
      <<<<"5", "4">>, <<"1">>>>,
      <<<<"3", "8">>, <<"1", "0", "0">>>>,
      <<<<"5", "8">>, <<"a", "|", "b">>>> }

\* A message text: its MsgType and up to MaxPairs further pairs.
Texts ==
    { [type |-> t, pairs |-> ps] :
        t \in {<<"D">>, <<"8">>},
        ps \in UNION { [1 .. n -> Pairs] : n \in 0 .. MaxPairs } }

NoText == [type |-> <<>>, pairs |-> <<>>]

\* str(n) for n >= 0.
RECURSIVE Digits(_)
Digits(n) ==
    LET d == <<"0", "1", "2", "3", "4", "5", "6", "7", "8", "9">>[(n % 10) + 1] IN
    IF n < 10 THEN <<d>> ELSE Append(Digits(n \div 10), d)

\* The byte value of a character.
Ascii(c) ==
    CASE c = SOH -> 1
      [] c = "." -> 46
      [] c = "0" -> 48 [] c = "1" -> 49 [] c = "2" -> 50 [] c = "3" -> 51
      [] c = "4" -> 52 [] c = "5" -> 53 [] c = "6" -> 54 [] c = "7" -> 55
      [] c = "8" -> 56 [] c = "9" -> 57
      [] c = "=" -> 61
      [] c = "B" -> 66 [] c = "D" -> 68 [] c = "F" -> 70 [] c = "I" -> 73
      [] c = "M" -> 77 [] c = "S" -> 83 [] c = "T" -> 84 [] c = "X" -> 88
      [] c = "a" -> 97 [] c = "b" -> 98
      [] c = "|" -> 124

RECURSIVE ByteSum(_)
ByteSum(s) == IF s = <<>> THEN 0 ELSE Ascii(Head(s)) + ByteSum(Tail(s))

\* The three digits of tag 10.
CheckSum(s) ==
    LET c == ByteSum(s) % 256 IN
    <<Digits(c \div 100)[1], Digits((c \div 10) % 10)[1], Digits(c % 10)[1]>>

RECURSIVE Concat(_)
Concat(fs) == IF fs = <<>> THEN <<>> ELSE Head(fs) \o Concat(Tail(fs))

\* The header fields construct_message adds (49, 56, 34; the timestamps 52
\* and 60 shortened to one digit each).
HeaderFields ==
    Field(<<"4", "9">>, <<"S">>) \o Field(<<"5", "6">>, <<"T">>)
        \o Field(<<"3", "4">>, <<"1">>) \o Field(<<"5", "2">>, <<"0">>)
        \o Field(<<"6", "0">>, <<"0">>)

\* fix_message.encode(): 8, 9 and 35 first, the other pairs in order, 9 the
\* length of everything between its own SOH and tag 10, then 10.
Encode(type, body) ==
    LET buf == Field(<<"3", "5">>, type) \o body
        head == Field(<<"8">>, <<"F", "I", "X", ".", "4", ".", "2">>)
                    \o Field(<<"9">>, Digits(Len(buf)))
    IN head \o buf \o Field(<<"1", "0">>, CheckSum(head \o buf))

\* bytes.find(pat, from): the lowest index (from 0) at or after from where
\* pat starts, -1 when there is none.
Find(pat, s, from) ==
    LET hits == {i \in (from + 1) .. (Len(s) - Len(pat) + 1) :
                    SubSeq(s, i, i + Len(pat) - 1) = pat}
    IN IF hits = {} THEN -1
       ELSE (CHOOSE i \in hits : \A j \in hits : i <= j) - 1

\* Lines 216-218 of send_custom_message.
ActualBodyLength(temp_encoded) ==
    LET checksum_pos == Find(<<SOH, "1", "0", "=">>, temp_encoded, 0)
        body_start_pos == Find(<<SOH>>, temp_encoded,
                               Find(<<"9", "=">>, temp_encoded, 0)) + 1
    IN checksum_pos - body_start_pos

\* response.replace(b'|', b'\x01') of receive_messages.
ReplacePipe(s) == [i \in 1 .. Len(s) |-> IF s[i] = "|" THEN SOH ELSE s[i]]

\* The parser: the fields of a buffer are what stands between its SOH bytes.
RECURSIVE SplitFrom(_, _, _)
SplitFrom(s, i, cur) ==
    IF i > Len(s) THEN (IF cur = <<>> THEN <<>> ELSE <<cur>>)
    ELSE IF s[i] = SOH THEN <<cur>> \o SplitFrom(s, i + 1, <<>>)
    ELSE SplitFrom(s, i + 1, Append(cur, s[i]))

SplitFields(s) == SplitFrom(s, 1, <<>>)

\* The frames a peer sends.
WireFrames ==
    { Encode(m.type, Concat([i \in DOMAIN m.pairs |->
                                Field(m.pairs[i][1], m.pairs[i][2])])) :
        m \in Texts }

KInit ==
    /\ custom_msg = NoText
    /\ encoded = <<>>
    /\ actual_body_length = 0
    /\ response = <<>>
    /\ fields = <<>>
    /\ klast = "init"

\* A caller's text and the bytes of the peer's next frame.
KInputs ==
    /\ custom_msg \in Texts
    /\ encoded = <<>>
    /\ actual_body_length = 0
    /\ response \in WireFrames
    /\ fields = <<>>
    /\ klast = "init"

\* send_custom_message, lines 212-218: the message is encoded and the
\* BodyLength computed from the bytes.
EncodeCustomMessage ==
    /\ custom_msg # NoText
    /\ encoded' = Encode(custom_msg.type,
                         HeaderFields \o
                         Concat([i \in DOMAIN custom_msg.pairs |->
                                    Field(custom_msg.pairs[i][1],
                                          custom_msg.pairs[i][2])]))
    /\ actual_body_length' = ActualBodyLength(encoded')
    /\ klast' = "send_custom_message"
    /\ UNCHANGED <<custom_msg, response, fields>>
    /\ UNCHANGED <<fvars, qvars, cvars, mvars, gvars>>

\* receive_messages, lines 361-373: the bytes received, '|' replaced, go to
\* the parser.
ParseResponse ==
    /\ response # <<>>
    /\ fields' = SplitFields(ReplacePipe(response))
    /\ klast' = "receive"
    /\ UNCHANGED <<custom_msg, encoded, actual_body_length, response>>
    /\ UNCHANGED <<fvars, qvars, cvars, mvars, gvars>>

Init == FInit /\ QInit /\ CInit /\ MInit /\ KInit /\ GInit

InitBytes == FInit /\ QInit /\ CInit /\ MInit /\ KInputs /\ GInit

InitConfig == FInit /\ QInit /\ CInit /\ MInit /\ KInit /\ GInputs

Next ==
    \/ Connect
    \/ Disconnect
    \/ SendRawFix
    \/ SendCustomMessage
    \/ SendHeartbeat
    \/ SendLogout
    \/ SendOrdersFromFile
    \/ SendSequenceReset
    \/ SendResendRequest
    \/ Receive
    \/ PeerClose
    \/ ReceiverExit
    \/ Restart

Spec == Init /\ [][Next]_vars

NextQF ==
    \/ QConnect
    \/ QDisconnect
    \/ OnLogon
    \/ OnLogout
    \/ ToAdmin
    \/ FromAdmin
    \/ FromApp
    \/ QSendNewOrderSingle
    \/ QSendOrderCancelRequest
    \/ QSendOrderCancelReplaceRequest
    \/ QSendRawFix
    \/ QSendCustomMessage
    \/ QSendSequenceReset
    \/ SetSequenceNumbers

SpecQF == Init /\ [][NextQF]_vars

NextBytes ==
    \/ EncodeCustomMessage
    \/ ParseResponse

SpecBytes == InitBytes /\ [][NextBytes]_vars

\* A QuickFixClient with any overrides, writing its configuration file.
NextConfig ==
    \/ CreateConfigFile
    \/ QConnect
    \/ QDisconnect

SpecConfig == InitConfig /\ [][NextConfig]_vars

\* The control surface with one user's requests, each running alone, and
\* one connect request for each session, each on a thread of its own.
NextMulti ==
    \/ \E n \in SessionNames : ConnectSession(ThreadFor(n), n)
    \/ \E t \in Connectors : ConfigWrite(t)
    \/ \E t \in Connectors : LoadSettings(t)
    \/ \E n \in SessionNames : SessionLogon(n)
    \/ \E n \in SessionNames : SessionLogout(n)
    \/ \E n \in SessionNames : DisconnectSession(n)
    \/ \E n \in SessionNames : SetUserSession("u1", n)
    \/ WebSendOrder("u1")
    \/ WebReplaceOrder
    \/ WebCancelOrder
    \/ WebSendRawFix
    \/ WebSendCustomMessage
    \/ CliSendOrder
    \/ CliSendRawFix

SpecMulti == Init /\ [][NextMulti]_vars

\* MultiFixClient's own operations, connect_session on any thread.
NextSessions ==
    \/ \E t \in Connectors, n \in SessionNames \cup {UnknownName} : ConnectSession(t, n)
    \/ \E t \in Connectors : ConfigWrite(t)
    \/ \E t \in Connectors : LoadSettings(t)
    \/ \E n \in SessionNames : SessionLogon(n)
    \/ \E n \in SessionNames : SessionLogout(n)
    \/ \E n \in SessionNames : DisconnectSession(n)
    \/ DisconnectCurrent

SpecSessions == Init /\ [][NextSessions]_vars

\* The CLI: one thread, calling login_session and the MultiFixClient.
NextCli ==
    \/ \E k \in SessionKeys \cup {UnknownName}, reset_seq \in BOOLEAN :
            CliLoginSession(k, reset_seq)
    \/ \E k \in SessionKeys \cup {UnknownName} : ConnectSession(CliThread, k)
    \/ ConfigWrite(CliThread)
    \/ LoadSettings(CliThread)
    \/ \E n \in SessionNames : SessionLogon(n)
    \/ \E n \in SessionNames : SessionLogout(n)
    \/ \E k \in SessionKeys : DisconnectSession(k)
    \/ DisconnectCurrent
    \/ CliSendOrder
    \/ CliSendRawFix

SpecCli == Init /\ [][NextCli]_vars

\* The web layer after connect_session('A') and connect_session('B') ran one
\* after the other and both sessions logged on.
InitWeb ==
    /\ FInit /\ QInit /\ CInit /\ KInit
    /\ quickfix_overrides = NoOverrides
    /\ cfg_defaults = ConfigDefaults(SessionOverrides("B"), "initiator")
    /\ sessions = [k \in SessionKeys |->
            IF k \in SessionNames
            THEN [present |-> TRUE, running |-> TRUE, logged_on |-> TRUE,
                  session_id |-> TRUE, settings |-> k,
                  overrides |-> SessionOverrides(k)]
            ELSE NoClient]
    /\ connecting = [t \in Connectors |-> NotConnecting]
    /\ cfg_file = "B"
    /\ user_sessions = [u \in Users |-> "none"]
    /\ ordering = [u \in Users |-> NotOrdering]
    /\ active_session = "B"
    /\ disconnected = {}
    /\ orphans = {}
    /\ mlast = MLast("onLogon", "A", "none")

\* The send_order requests of two users, none naming a session in its body,
\* as the request threads interleave, with the sessions logging out and on
\* again.
NextWeb ==
    \/ \E n \in SessionNames : SessionLogon(n)
    \/ \E n \in SessionNames : SessionLogout(n)
    \/ \E u \in Users, n \in SessionNames : SetUserSession(u, n)
    \/ \E u \in Users : SendOrderSelect(u, "none")
    \/ \E u \in Users : SendOrderTransmit(u)

SpecWeb == InitWeb /\ [][NextWeb]_vars

\* The session over time: a logged-on FixClient with the intervals in which
\* no frame arrives.
NextIdle ==
    \/ Connect
    \/ Disconnect
    \/ SendHeartbeat
    \/ SendLogout
    \/ Receive
    \/ PeerClose
    \/ ReceiverExit
    \/ Idle

SpecIdle == Init /\ [][NextIdle]_vars

NextThreads ==
    \/ Connect
    \/ \E t \in Threads : SeqIncrement(t)
    \/ \E t \in Threads : SaveOpen(t)
    \/ \E t \in Threads : SaveDump(t)
    \/ \E t \in Threads : SeqReturn(t)
    \/ \E t \in Threads : SockSendall(t)
    \/ Crash

SpecThreads == Init /\ [][NextThreads]_vars

\* ------------------------------------------------- claims about FixClient

\* C1: a FixClient send operation (send_raw_fix, send_custom_message,
\* send_heartbeat, send_logout, send_orders_from_file, send_resend_request)
\* whose socket write fails, or that runs while no socket is open, leaves the
\* outbound counter seq as it was before the call.
C1_FailedSendKeepsSeq ==
    (/\ last.op \in {"send_raw_fix", "send_custom_message", "send_heartbeat",
                     "send_logout", "send_orders_from_file", "send_resend_request"}
     /\ ~last.ok)
        => seq = last.seq0

\* C4: after receive_messages processed a well-formed frame other than a
\* SequenceReset, of any MsgType (Heartbeat included), with 34 = N equal to
\* expected_seq and without 43=Y, expected_seq is N + 1.
C4_InOrderAdvances ==
    (/\ last.op = "receive"
     /\ last.m.defect = "none"
     /\ last.m.type # SequenceReset
     /\ ~last.m.dup
     /\ last.m.seq = last.exp0)
        => expected_seq = last.exp0 + 1

\* C5: a frame with 34 greater than expected_seq and without 43=Y makes the
\* session write a ResendRequest with 7 = expected_seq and 16 = 0, and
\* expected_seq is not moved past the missing numbers.
C5_GapAsksResend ==
    (/\ last.op = "receive"
     /\ last.m.defect = "none"
     /\ ~last.m.dup
     /\ last.m.seq > last.exp0)
        => /\ \E i \in 1 .. Len(last.wrote) :
                /\ last.wrote[i].type = ResendRequest
                /\ last.wrote[i].b = last.exp0
                /\ last.wrote[i].e = 0
           /\ expected_seq = last.exp0

\* C6: a frame with 34 lower than expected_seq and without 43=Y disconnects
\* the session and does not lower expected_seq.
C6_TooLowDisconnects ==
    (/\ last.op = "receive"
     /\ last.m.defect = "none"
     /\ ~last.m.dup
     /\ last.m.seq < last.exp0)
        => /\ ~running
           /\ sock # "open"
           /\ expected_seq >= last.exp0

\* C7: processing a frame with 34 lower than expected_seq and 43=Y, of any
\* MsgType, changes none of expected_seq, seq, the stored messages and the
\* persisted counters.
C7_PossDupBelowIsNoOp ==
    [][(/\ last'.op = "receive"
        /\ last'.m.defect = "none"
        /\ last'.m.dup
        /\ last'.m.seq < expected_seq)
            => UNCHANGED <<expected_seq, seq, sent_messages, session_file>>]_vars

\* C8: a frame with 43=Y never advances expected_seq, whatever its MsgType and
\* its 34; an ExecutionReport among them still reaches the handler
\* (gui_callback) when one is set.
C8_PossDupNeverAdvances ==
    (/\ last.op = "receive"
     /\ last.m.defect = "none"
     /\ last.m.dup)
        => /\ expected_seq <= last.exp0
           /\ (last.m.type = ExecutionReport /\ gui_callback) => last.gui

\* C9: after a SequenceReset with 123=Y and 36 = K, expected_seq is the
\* larger of its former value and K; when K is lower than the former value a
\* Reject (35=3) is written.
C9_GapFillNeverLowers ==
    (/\ last.op = "receive"
     /\ last.m.defect = "none"
     /\ last.m.type = SequenceReset
     /\ last.m.gapfill)
        => /\ expected_seq = IF last.m.newseq > last.exp0 THEN last.m.newseq
                             ELSE last.exp0
           /\ last.m.newseq < last.exp0 =>
                \E i \in 1 .. Len(last.wrote) : last.wrote[i].type = Reject

\* C10: the answer to a ResendRequest for b..e re-sends every application
\* message stored in sent_messages within the range with 43=Y, and no
\* SequenceReset-GapFill of the answer covers the number of such a message.
C10_ResendsStoredOrders ==
    (/\ last.op = "receive"
     /\ last.m.defect = "none"
     /\ last.m.type = ResendRequest
     /\ last.ok)
        => \A p \in sent_messages :
            (p[2] = NewOrderSingle /\ last.m.b <= p[1] /\ p[1] <= EndSeq(last.m))
                => /\ \E i \in 1 .. Len(last.wrote) :
                        /\ last.wrote[i].type = p[2]
                        /\ last.wrote[i].seq = p[1]
                        /\ last.wrote[i].dup
                   /\ \A i \in 1 .. Len(last.wrote) :
                        last.wrote[i].type = SequenceReset
                            => ~(last.wrote[i].seq <= p[1]
                                 /\ p[1] < last.wrote[i].newseq)

\* C11: the answer to a ResendRequest for b..e ends at min(e, seq), e = 0
\* being no upper bound (the last message's NewSeqNo 36 is that number plus
\* one), and covers no number above seq, the last number sent.
C11_ResendEndsAtLastSent ==
    (/\ last.op = "receive"
     /\ last.m.defect = "none"
     /\ last.m.type = ResendRequest
     /\ last.ok)
        => /\ Len(last.wrote) >= 1
           /\ last.wrote[Len(last.wrote)].newseq - 1 =
                (IF last.m.e = 0 \/ last.m.e > last.seq0 THEN last.seq0
                 ELSE last.m.e)
           /\ \A i \in 1 .. Len(last.wrote) :
                \A k \in last.wrote[i].seq .. (last.wrote[i].newseq - 1) :
                    k <= last.seq0

\* C11 happens: a ResendRequest 1..0 (no upper bound) was answered when two
\* messages had been sent.
C11_Witness ==
    /\ last.op = "receive"
    /\ last.m.type = ResendRequest
    /\ last.m.defect = "none"
    /\ last.ok
    /\ last.m.b = 1
    /\ last.m.e = 0
    /\ last.seq0 = 2
    /\ last.wrote[1].newseq = 3

\* C12: sent_messages never holds an admin message: no Logon (A), Logout (5),
\* Heartbeat (0), TestRequest (1), ResendRequest (2) or SequenceReset (4).
C12_NoAdminStored ==
    \A p \in sent_messages : p[2] \notin {Logon, Logout, Heartbeat, "1",
                                          ResendRequest, SequenceReset}

\* C13: for every application message with number S an operation wrote to
\* the socket, sent_messages holds an entry for S and the persisted outgoing
\* counter is at least S, once that operation is done and still after the
\* operation that follows it (send_sequence_reset included; a restart of the
\* process is not counted as an operation).
C13_PersistedBeforeWriteAndAfter ==
    [][/\ \A i \in DOMAIN last'.wrote :
            last'.wrote[i].type = NewOrderSingle
                => /\ \E p \in sent_messages' : p[1] = last'.wrote[i].seq
                   /\ session_file'.exists
                   /\ session_file'.outgoing_seq >= last'.wrote[i].seq
       /\ last'.op # "restart"
            => \A i \in DOMAIN last.wrote :
                last.wrote[i].type = NewOrderSingle
                    => /\ \E p \in sent_messages' : p[1] = last.wrote[i].seq
                       /\ session_file'.exists
                       /\ session_file'.outgoing_seq >= last.wrote[i].seq]_vars

\* C14: the application messages stored before the process restarts (a new
\* FixClient running init_variables and load_session_state) are in the store
\* of the new instance, to answer a ResendRequest from.
C14_StoreSurvivesRestart ==
    [][last'.op = "restart"
        => \A p \in sent_messages :
            p[2] = NewOrderSingle => p \in sent_messages']_vars

\* C15: in every reachable state next_out (seq + 1) and next_in
\* (expected_seq) are at least 1.
C15_CountersAtLeastOne == seq + 1 >= 1 /\ expected_seq >= 1

\* C20: a Logon with 141=Y received while the session awaits the answer to
\* its own Logon (connect was the operation before) restarts both counters
\* from 1: afterwards next_out (seq + 1) and next_in (expected_seq) are at
\* most 2, the Logon of each direction being all that is counted.
C20_LogonResetRestartsCounters ==
    [][(/\ last.op = "connect"
        /\ last.ok
        /\ last'.op = "receive"
        /\ last'.m.type = Logon
        /\ last'.m.reset
        /\ last'.m.defect = "none")
            => (seq' + 1 <= 2 /\ expected_seq' <= 2)]_vars

\* C21: a clean initiator logon from a fresh store (seq 0, expected_seq 1):
\* connect sends a Logon with 34=1, and once the peer's Logon with 34=1 has
\* been processed next_out (seq + 1) is 2 and next_in (expected_seq) is 2.
C21_CleanLogonCounters ==
    [][/\ (last'.op = "connect" /\ last'.ok /\ last'.seq0 = 0)
            => last'.wrote = <<OutMsg(Logon, 1, FALSE, 0, FALSE, 0, 0)>>
       /\ (/\ last.op = "connect"
           /\ last.ok
           /\ last.seq0 = 0
           /\ last.exp0 = 1
           /\ last'.op = "receive"
           /\ last'.m.type = Logon
           /\ last'.m.seq = 1
           /\ ~last'.m.dup
           /\ last'.m.defect = "none")
            => (seq' + 1 = 2 /\ expected_seq' = 2)]_vars

\* C21 happens: the peer's Logon 34=1 was processed on a session whose only
\* outbound message is its Logon 34=1.
C21_Witness ==
    /\ last.op = "receive"
    /\ last.m.type = Logon
    /\ last.m.seq = 1
    /\ ~last.m.dup
    /\ last.m.defect = "none"
    /\ last.seq0 = 1
    /\ last.exp0 = 1
    /\ session_file = SavedState(1, 1)
    /\ sent_messages = {}
    /\ seq = 1
    /\ expected_seq = 2

\* C22: when the peer closes the socket, or a socket read fails, in
\* receive_messages, the session is DISCONNECTED afterwards: running is False
\* and the socket is closed.
C22_PeerCloseDisconnects ==
    last.op = "peer_close" => (~running /\ sock = "closed")

\* C23: a disconnect followed by a connect keeps both counters: the Logon of
\* the reconnect carries the number after the last one used before the
\* disconnect, and next_in (expected_seq) is what it was.
C23_ReconnectKeepsCounters ==
    [][(/\ last.op = "disconnect"
        /\ last'.op = "connect"
        /\ last'.ok)
            => /\ Len(last'.wrote) = 1
               /\ last'.wrote[1].type = Logon
               /\ last'.wrote[1].seq = last.seq0 + 1
               /\ seq' = last.seq0 + 1
               /\ expected_seq' = last.exp0]_vars

\* C23 happens: a connect on a session that had used number 1 and had
\* processed an inbound frame sent its Logon with 34=2, the receiver thread of
\* the earlier connection having ended.
C23_Witness ==
    /\ last.op = "connect"
    /\ last.ok
    /\ last.seq0 = 1
    /\ last.exp0 = 2
    /\ last.wrote[1].seq = 2
    /\ seq = 2
    /\ expected_seq = 2

\* C25: an error raised by the application handler (gui_callback) while an
\* inbound message is delivered does not stop the session: the receiver
\* thread is alive afterwards, to process the messages that follow.
C25_HandlerErrorKeepsReceiver ==
    (last.op = "receive" /\ last.gui /\ ~last.ok) => receiver = "alive"

\* C26: an inbound frame that cannot be processed (a non-numeric 34, a
\* ResendRequest without 7 or 16, a SequenceReset without 36) does not advance
\* next_in (expected_seq) and does not end the session.
C26_BadFrameIsSkipped ==
    (last.op = "receive" /\ last.m.defect # "none")
        => (expected_seq = last.exp0 /\ receiver = "alive")

\* C29: while logged on, once no inbound message has arrived for more than
\* 1.2 heartbeat intervals the session has sent a TestRequest (35=1), unless
\* it is no longer running.
C29_IdleSendsTestRequest ==
    last.op = "idle"
        => \/ \E i \in DOMAIN last.wrote : last.wrote[i].type = "1"
           \/ ~running

\* C30: after send_logout sent the Logout the transport stays open until the
\* peer's Logout arrives or the grace period is over (so it is open when
\* send_logout returns); and on an inbound Logout the session did not start
\* it writes its own Logout before it closes.
C30_LogoutHandshake ==
    /\ (last.op = "send_logout" /\ last.ok) => sock = "open"
    /\ (last.op = "receive" /\ last.m.type = Logout /\ last.m.defect = "none")
        => \E i \in DOMAIN last.wrote : last.wrote[i].type = Logout

\* C35: every SequenceReset-GapFill handle_resend_request writes has NewSeqNo
\* (36) strictly greater than its own MsgSeqNum (34), for every inbound
\* ResendRequest, one whose BeginSeqNo is above the last number sent
\* included; and writing it leaves next_out (seq) as it was.
C35_GapFillMovesForward ==
    (/\ last.op = "receive"
     /\ last.m.type = ResendRequest
     /\ last.m.defect = "none")
        => /\ \A i \in DOMAIN last.wrote :
                last.wrote[i].newseq > last.wrote[i].seq
           /\ seq = last.seq0

\* -------------------------------------------- claims about QuickFixClient

\* C2: a QuickFixClient send operation invoked while logged_on is False
\* returns failure and hands no message to sendToTarget.
C2_NotLoggedOnSendFails ==
    (/\ qlast.op \in {"send_new_order_single", "send_order_cancel_request",
                      "send_order_cancel_replace_request", "send_raw_fix",
                      "send_custom_message", "send_sequence_reset"}
     /\ ~qlast.lo0)
        => ~qlast.ok /\ ~qlast.sent

\* C3: in every reachable state session_id is set (not None) only while
\* logged_on is True.
C3_SessionIdOnlyLoggedOn == session_id # "None" => logged_on

\* C28: the callback registered with the engine (message_callback, which
\* MultiFixClient passes to each QuickFixClient and also sets as gui_callback)
\* is never invoked for an admin message, sent or received.
C28_NoAdminToCallback == qlast.callback # "admin"

\* C38: after onLogout has run for a client that MultiFixClient.sessions
\* holds under a name, session_states[name] is 'disconnected'.
C38_LogoutReported ==
    (qlast.op = "onLogout" /\ in_sessions) => session_states = "disconnected"

\* --------------------------------------- claims about FixClient's threads

\* C16: under every interleaving of the receiver thread (send_heartbeat) and
\* a caller's send, no two messages written to the socket carry the same
\* MsgSeqNum.
C16_NoDuplicateSeqOnWire ==
    \A i \in 1 .. Len(wire) : \A j \in 1 .. Len(wire) :
        i # j => wire[i] # wire[j]

\* C17: under every interleaving of the receiver thread and a caller, the
\* messages reach the socket in strictly increasing order of MsgSeqNum.
C17_WireStrictlyIncreasing ==
    \A i \in 1 .. Len(wire) : \A j \in 1 .. Len(wire) :
        i < j => wire[i] < wire[j]

\* C18: the counters a FixClient loads at start were persisted by a session
\* with the same CompID pair. (The step of a new instance replacing a killed
\* process is the one that leaves clast at "crash" and last at "restart".)
C18_LoadsOwnCounters ==
    [][(clast'.op = "crash" /\ last'.op = "restart" /\ session_file.exists)
        => session_file.comp_ids = comp_ids']_vars

\* C19: whatever point of save_session_state the process is killed at, the
\* pair the next instance loads is the pair persisted before that save or
\* the pair it was writing (with no save under way, the pair in the file).
C19_SaveIsAtomic ==
    [][(clast'.op = "crash" /\ last'.op = "restart")
        => IF \E t \in Threads : pending[t].saving
           THEN \E t \in Threads :
                /\ pending[t].saving
                /\ \E f \in {pending[t].before, pending[t].new} :
                    /\ seq' = LoadedSeq(f)
                    /\ expected_seq' = LoadedExpected(f)
           ELSE /\ seq' = LoadedSeq(session_file)
                /\ expected_seq' = LoadedExpected(session_file)]_vars

\* ----------------------------------- claims about FixClient's byte level

\* C32: the BodyLength send_custom_message computes (actual_body_length) is
\* the number of bytes from the byte after the SOH that ends the BodyLength
\* field up to, not including, the '1' of the "10=" CheckSum tag: the SOH that
\* ends the last body field is counted.
C32_BodyLengthCountsLastSOH ==
    klast = "send_custom_message"
        => LET after9 == CHOOSE i \in 1 .. Len(encoded) :
                            /\ encoded[i] = SOH
                            /\ Cardinality({k \in 1 .. i : encoded[k] = SOH}) = 2
               tag10 == Len(encoded) - 6
           IN /\ SubSeq(encoded, 1, 2) = <<"8", "=">>
              /\ SubSeq(encoded, after9 - Len(Digits(actual_body_length + 1)) - 2,
                        after9 - Len(Digits(actual_body_length + 1)) - 1) = <<"9", "=">>
              /\ SubSeq(encoded, tag10, tag10 + 2) = <<"1", "0", "=">>
              /\ actual_body_length = (tag10 - 1) - after9

\* C33: a '|' byte received on the wire is not a field delimiter: the fields
\* delivered for the bytes received are the ones SOH alone separates, a value
\* that contains '|' being one field.
C33_PipeIsNoDelimiter ==
    klast = "receive" => fields = SplitFields(response)

\* ------------------------ claims about MultiFixClient and the control surface

\* C24: under every interleaving of connect_session for two sessions, the
\* QuickFIX settings a session's initiator was started with are the
\* session's own configuration, never the other session's.
C24_OwnSettings ==
    \A n \in SessionNames :
        (sessions[n].present /\ sessions[n].settings # "none")
            => sessions[n].settings = n

\* C27: after disconnect_session(name), a send that names that session (web
\* send_order, replace_order, cancel_order, send_raw_fix, send_custom_message;
\* CLI send_order, send_raw_fix) reports failure and transmits nothing, also
\* when user_sessions still names the session.
C27_SendAfterDisconnectRejected ==
    (/\ mlast.op \in {"send_order", "replace_order", "cancel_order",
                      "web_send_raw_fix", "web_send_custom_message",
                      "cli_send_order", "cli_send_raw_fix"}
     /\ mlast.to \in disconnected)
        => (~mlast.ok /\ mlast.via = "none")

\* C31: login_session(session_id, reset_seq=True) makes the session log on
\* with ResetSeqNumFlag=Y: the configuration written for the client that
\* connect_session starts has ResetSeqNumFlag=Y, for a name and for the
\* 'FIX.x:SENDER->TARGET' form.
C31_ResetLoginWritesFlag ==
    \A t \in Connectors :
        (connecting[t].at = "written" /\ connecting[t].reset)
            => cfg_defaults["ResetSeqNumFlag"] = "Y"

\* C34: every key a client's quickfix_overrides sets is in the configuration
\* create_config_file writes, with the overriding value.
C34_OverridesWritten ==
    cfg_defaults # NoDefaults
        => \A k \in ConfigKeys :
                quickfix_overrides[k] # Absent
                    => cfg_defaults[k] = quickfix_overrides[k]

\* C36: when no connect_session call is running any more, every started
\* client is the one sessions holds under its name: no started client is
\* left that sessions does not refer to.
C36_OneStartedClient ==
    (\A t \in Connectors : connecting[t].at = "idle") => orphans = {}

\* C37: when the users have selected different sessions and their send_order
\* requests name no session in the body, an order that is transmitted is
\* transmitted by the client of its user's session, however the requests
\* interleave.
C37_OrderOnOwnSession ==
    (/\ mlast.op = "send_order" /\ mlast.ok /\ mlast.to = mlast.own
     /\ \A u, v \in Users : u # v => user_sessions[u] # user_sessions[v])
        => mlast.via = mlast.own

\* C39: every key of sessions is a configured session name.
C39_KeysAreNames ==
    \A k \in SessionKeys : sessions[k].present => k \in SessionNames

====
